---- MODULE Spec2Model ----
(***************************************************************************)
(* A model of the ConJur RSS feed generator (src/src/main.py): the crawl   *)
(* of the tag listing pages (scrape_tag, scrape_all_tags), the extraction  *)
(* of the articles of a page, the deduplication by url and the emission of *)
(* the per-tag and combined feeds (async_main, generate_feed_for_tag,      *)
(* generate_combined_feed).                                                *)
(***************************************************************************)
EXTENDS Integers, Sequences, FiniteSets, TLC

(***************************************************************************)
(* Bounds of the model.                                                    *)
(***************************************************************************)
\* longest tag list given to a run
MaxTags == 2
\* most first-page fetches and page ceilings together: a run has
\* Len(tags) * max_pages <= MaxFetches
MaxFetches == 3
\* most articles, over all tags, handed directly to the feed functions
MaxArticles == 3

\* the article blocks of a listing document given to a direct call
MaxBlocks == 2
\* the successive answers a server has ready for the GETs of one url
MaxAnswers == 2
\* the links of a pagination element given to a direct call
MaxLinks == 2

(***************************************************************************)
(* Program constants.                                                      *)
(***************************************************************************)
BASE_URL == "https://www.conjur.com.br"

\* MONTHS_PT: the month lexicon, as a set of <<name, number>> pairs
MONTHS_PT ==
    { <<"janeiro", 1>>, <<"fevereiro", 2>>, <<"março", 3>>, <<"abril", 4>>,
      <<"maio", 5>>, <<"junho", 6>>, <<"julho", 7>>, <<"agosto", 8>>,
      <<"setembro", 9>>, <<"outubro", 10>>, <<"novembro", 11>>,
      <<"dezembro", 12>> }

(***************************************************************************)
(* Python values.  None is a record of its own, so that it compares with   *)
(* every other value.                                                      *)
(***************************************************************************)
None == [kind |-> "None"]

\* a raised exception, as the outcome of a computation
Raise(exc) == [kind |-> "raise", exc |-> exc]

IsRaise(v) == v.kind = "raise"

Min(a, b) == IF a <= b THEN a ELSE b

\* a loop that forgets to reverse
NotReversed(s) == s

\* reversed(seq)
Reversed(s) == [k \in 1..Len(s) |-> s[Len(s) + 1 - k]]

\* str.startswith
StartsWith(s, prefix) ==
    Len(s) >= Len(prefix) /\ SubSeq(s, 1, Len(prefix)) = prefix

\* the letters str.lower and str.upper change, as <<lower, upper>> pairs
Letters ==
    { <<"a", "A">>, <<"b", "B">>, <<"c", "C">>, <<"d", "D">>, <<"e", "E">>,
      <<"f", "F">>, <<"g", "G">>, <<"h", "H">>, <<"i", "I">>, <<"j", "J">>,
      <<"k", "K">>, <<"l", "L">>, <<"m", "M">>, <<"n", "N">>, <<"o", "O">>,
      <<"p", "P">>, <<"q", "Q">>, <<"r", "R">>, <<"s", "S">>, <<"t", "T">>,
      <<"u", "U">>, <<"v", "V">>, <<"w", "W">>, <<"x", "X">>, <<"y", "Y">>,
      <<"z", "Z">>, <<"ç", "Ç">> }

LowerChar(c) ==
    IF \E p \in Letters : p[2] = c
    THEN (CHOOSE p \in Letters : p[2] = c)[1]
    ELSE c

UpperChar(c) ==
    IF \E p \in Letters : p[1] = c
    THEN (CHOOSE p \in Letters : p[1] = c)[2]
    ELSE c

RECURSIVE Lower(_)
\* str.lower
Lower(s) ==
    IF Len(s) = 0 THEN ""
    ELSE LowerChar(SubSeq(s, 1, 1)) \o Lower(SubSeq(s, 2, Len(s)))

RECURSIVE Upper(_)
\* str.upper
Upper(s) ==
    IF Len(s) = 0 THEN ""
    ELSE UpperChar(SubSeq(s, 1, 1)) \o Upper(SubSeq(s, 2, Len(s)))

RECURSIVE Replace(_, _, _)
\* str.replace of one character by another
Replace(s, old, new) ==
    IF Len(s) = 0 THEN ""
    ELSE (IF SubSeq(s, 1, 1) = old THEN new ELSE SubSeq(s, 1, 1))
         \o Replace(SubSeq(s, 2, Len(s)), old, new)

RECURSIVE Join(_, _)
\* sep.join(parts)
Join(sep, parts) ==
    IF Len(parts) = 0 THEN ""
    ELSE IF Len(parts) = 1 THEN parts[1]
    ELSE parts[1] \o sep \o Join(sep, Tail(parts))

(***************************************************************************)
(* parse_pt_date.  A date text is what the regular expression sees of it:  *)
(* no structural match, or the five groups it captures (day of one or two  *)
(* digits, a word, a year of four digits, hour and minute of two digits).  *)
(***************************************************************************)
NoMatch == [kind |-> "text", match |-> FALSE]

DateText(day, month_name, year, hour, minute) ==
    [kind |-> "text", match |-> TRUE, day |-> day, month_name |-> month_name,
     year |-> year, hour |-> hour, minute |-> minute]

\* MONTHS_PT.get(name): the month number, None when the name is no key
MonthsGet(name) ==
    IF \E p \in MONTHS_PT : p[1] = name
    THEN (CHOOSE p \in MONTHS_PT : p[1] = name)[2]
    ELSE 0

IsLeap(year) == (year % 4 = 0) /\ ((year % 100 # 0) \/ (year % 400 = 0))

DaysInMonth(year, month) ==
    IF month = 2 THEN (IF IsLeap(year) THEN 29 ELSE 28)
    ELSE IF month \in {4, 6, 9, 11} THEN 30 ELSE 31

\* datetime(year, month, day, hour, minute, tzinfo=UTC): the constructor
\* raises ValueError for a field out of range
Datetime(year, month, day, hour, minute) ==
    IF /\ year \in 1..9999
       /\ month \in 1..12
       /\ day \in 1..DaysInMonth(year, month)
       /\ hour \in 0..23
       /\ minute \in 0..59
    THEN [kind |-> "datetime", year |-> year, month |-> month, day |-> day,
          hour |-> hour, minute |-> minute]
    ELSE Raise("ValueError")

parse_pt_date(text) ==
    IF ~text.match THEN None
    ELSE LET month == MonthsGet(Lower(text.month_name))
         IN  IF month = 0 THEN None
             ELSE Datetime(text.year, month, text.day, text.hour, text.minute)

(***************************************************************************)
(* parse_articles_from_html.  A listing document is the sequence of its    *)
(* article.lines blocks and its nav.pagination element; a block is what    *)
(* the extractor reads of it:                                              *)
(*   h2, a      whether the headline and the link inside it exist          *)
(*   link_text  the link's text, trimmed                                   *)
(*   href       the link's href attribute, "" when it has none             *)
(*   chapeu     the text of span.chapeu, None without the element          *)
(*   author     the comma-separated pieces of the author text, trimmed,    *)
(*              None without the element                                   *)
(*   time       the date text of the time element, None without it         *)
(*   img        the src of the image of figure.thumb, None without it      *)
(***************************************************************************)
Article(title, url, authors, category, published, image_url) ==
    [title |-> title, url |-> url, authors |-> authors, category |-> category,
     published |-> published, image_url |-> image_url]

Ok(value) == [kind |-> "ok", value |-> value]

Text(s) == [kind |-> "str", s |-> s]

\* the pieces of the author text that are not empty
AuthorsOf(author_el) ==
    IF author_el = None THEN << >>
    ELSE SelectSeq(author_el.pieces, LAMBDA a : a # "")

\* one pass of the loop over the blocks: None for a block that is skipped,
\* the Article, or the error of parse_pt_date
ParseBlock(b) ==
    IF ~b.h2 THEN None
    ELSE IF ~b.a THEN None
    ELSE IF b.link_text = "" \/ b.href = "" THEN None
    ELSE LET url == IF StartsWith(b.href, "http") THEN b.href
                    ELSE BASE_URL \o b.href
             category == IF b.chapeu # None THEN b.chapeu.s ELSE ""
             published == IF b.time # None THEN parse_pt_date(b.time) ELSE None
             image_url == IF b.img # None THEN b.img.s ELSE None
         IN  IF IsRaise(published) THEN published
             ELSE Ok(Article(b.link_text, url, AuthorsOf(b.author), category,
                             published, image_url))

RECURSIVE ParseBlocks(_, _)
ParseBlocks(blocks, articles) ==
    IF blocks = << >> THEN Ok(articles)
    ELSE LET r == ParseBlock(Head(blocks))
         IN  IF r = None THEN ParseBlocks(Tail(blocks), articles)
             ELSE IF IsRaise(r) THEN r
             ELSE ParseBlocks(Tail(blocks), Append(articles, r.value))

\* Ok(the list of Articles), or the error raised on the way
parse_articles_from_html(html) == ParseBlocks(html.blocks, << >>)

(***************************************************************************)
(* get_total_pages_from_html.  The pagination element is None or the       *)
(* sequence of its links; a link has its classes and its trimmed text.     *)
(***************************************************************************)
Digits ==
    { <<"0", 0>>, <<"1", 1>>, <<"2", 2>>, <<"3", 3>>, <<"4", 4>>,
      <<"5", 5>>, <<"6", 6>>, <<"7", 7>>, <<"8", 8>>, <<"9", 9>> }

IsDigit(c) == \E d \in Digits : d[1] = c

DigitValue(c) == (CHOOSE d \in Digits : d[1] = c)[2]

RECURSIVE IntFrom(_, _)
IntFrom(s, acc) ==
    IF Len(s) = 0 THEN acc
    ELSE IntFrom(SubSeq(s, 2, Len(s)), 10 * acc + DigitValue(SubSeq(s, 1, 1)))

\* int(text): the number of an optional sign and decimal digits, or
\* ValueError
IntOf(s) ==
    LET signed == Len(s) > 0 /\ SubSeq(s, 1, 1) \in { "+", "-" }
        digits == IF signed THEN SubSeq(s, 2, Len(s)) ELSE s
    IN  IF Len(digits) > 0 /\ \A k \in 1..Len(digits) : IsDigit(SubSeq(digits, k, k))
        THEN Ok(IF signed /\ SubSeq(s, 1, 1) = "-"
                THEN 0 - IntFrom(digits, 0) ELSE IntFrom(digits, 0))
        ELSE Raise("ValueError")

RECURSIVE MaxPageOf(_, _)
MaxPageOf(page_links, max_page) ==
    IF page_links = << >> THEN max_page
    ELSE LET num == IntOf(Head(page_links).text)
         IN  IF IsRaise(num) THEN MaxPageOf(Tail(page_links), max_page)
             ELSE IF num.value > max_page
                  THEN MaxPageOf(Tail(page_links), num.value)
                  ELSE MaxPageOf(Tail(page_links), max_page)

\* a count that also reads the label of the "next" control
TotalPagesWithNext(html) ==
    IF html.nav = None THEN 1
    ELSE MaxPageOf(SelectSeq(html.nav.links, LAMBDA l : l.page_numbers), 1)

get_total_pages_from_html(html) ==
    IF html.nav = None THEN 1
    ELSE MaxPageOf(SelectSeq(html.nav.links,
                             LAMBDA l : l.page_numbers /\ ~l.next), 1)

(***************************************************************************)
(* The deduplication loop of scrape_tag: the first article of each url.    *)
(***************************************************************************)
RECURSIVE DedupLoop(_, _, _)
DedupLoop(all_articles, seen_urls, unique_articles) ==
    IF all_articles = << >> THEN unique_articles
    ELSE LET article == Head(all_articles)
         IN  IF article.url \notin seen_urls
             THEN DedupLoop(Tail(all_articles), seen_urls \cup {article.url},
                            Append(unique_articles, article))
             ELSE DedupLoop(Tail(all_articles), seen_urls, unique_articles)

RECURSIVE LastOfEachUrl(_)
LastOfEachUrl(articles) ==
    IF articles = << >> THEN << >>
    ELSE IF \E k \in 2..Len(articles) : articles[k].url = Head(articles).url
         THEN LastOfEachUrl(Tail(articles))
         ELSE << Head(articles) >> \o LastOfEachUrl(Tail(articles))

\* a deduplication that lets the last article of a url win
DedupKeepLast(all_articles) == LastOfEachUrl(all_articles)

Dedup(all_articles) == DedupLoop(all_articles, {}, << >>)

(***************************************************************************)
(* dict.  A dictionary is the sequence of its items in insertion order;    *)
(* setting a key it has replaces the value and keeps the key's place.      *)
(***************************************************************************)
Item(key, value) == [key |-> key, value |-> value]

Keys(d) == { d[k].key : k \in 1..Len(d) }

DictGet(d, key) == d[CHOOSE k \in 1..Len(d) : d[k].key = key].value

DictSet(d, key, value) ==
    IF key \in Keys(d)
    THEN [k \in 1..Len(d) |-> IF d[k].key = key THEN Item(key, value) ELSE d[k]]
    ELSE Append(d, Item(key, value))

RECURSIVE DictZipSkipEmptyFrom(_, _, _, _)
DictZipSkipEmptyFrom(keys, values, k, d) ==
    IF k > Len(keys) THEN d
    ELSE IF values[k] = << >>
         THEN DictZipSkipEmptyFrom(keys, values, k + 1, d)
         ELSE DictZipSkipEmptyFrom(keys, values, k + 1,
                                   DictSet(d, keys[k], values[k]))

\* a dictionary that leaves out the keys whose value is the empty list
DictZipSkipEmpty(keys, values) == DictZipSkipEmptyFrom(keys, values, 1, << >>)

RECURSIVE DictZipFrom(_, _, _, _)
DictZipFrom(keys, values, k, d) ==
    IF k > Len(keys) THEN d
    ELSE DictZipFrom(keys, values, k + 1, DictSet(d, keys[k], values[k]))

\* dict(zip(tags, results, strict=True))
DictZip(keys, values) == DictZipFrom(keys, values, 1, << >>)

(***************************************************************************)
(* The feeds.  A feed document is its channel fields and its items in the  *)
(* order of the document.                                                  *)
(***************************************************************************)
\* the description of an entry
Description(article) ==
    LET cat_part == IF article.category # ""
                    THEN << "[" \o article.category \o "]" >> ELSE << >>
        by_part == IF article.authors # << >>
                   THEN << "Por " \o Join(", ", article.authors) >> ELSE << >>
        description_parts == cat_part \o by_part
    IN  IF description_parts # << >> THEN Join(" - ", description_parts)
        ELSE article.title

\* the entry of an article, under the title the feed gives it
FeedEntry(title, article) ==
    [id |-> article.url, title |-> title, link |-> article.url,
     published |-> article.published, description |-> Description(article)]

\* an add_entry that puts the new entry after the entries the feed has
AddEntryAppend(entries, fe) == Append(entries, fe)

\* fg.add_entry(): feedgen puts the new entry before the entries it has
\* (its default order is "prepend")
AddEntry(entries, fe) == << fe >> \o entries

RECURSIVE AddTagEntries(_, _)
\* the loop of generate_feed_for_tag over the articles it is handed
AddTagEntries(articles, entries) ==
    IF articles = << >> THEN entries
    ELSE AddTagEntries(Tail(articles),
                       AddEntry(entries, FeedEntry(Head(articles).title,
                                                   Head(articles))))

TagFileName(tag) == tag \o ".xml"

\* the document generate_feed_for_tag writes
TagFeed(tag, articles) ==
    [id |-> BASE_URL \o "/tag/" \o tag \o "/",
     title |-> "ConJur - " \o Replace(Upper(tag), "-", " "),
     self |-> TagFileName(tag),
     items |-> AddTagEntries(Reversed(articles), << >>)]

RECURSIVE Flatten(_)
\* the (tag, article) pairs of the dictionary, tag by tag
Flatten(tag_articles) ==
    IF tag_articles = << >> THEN << >>
    ELSE LET tag == Head(tag_articles).key
             articles == Head(tag_articles).value
         IN  [k \in 1..Len(articles) |-> [tag |-> tag, article |-> articles[k]]]
             \o Flatten(Tail(tag_articles))

RECURSIVE CombinedDedupLoop(_, _, _)
CombinedDedupLoop(all_articles, seen_urls, unique_articles) ==
    IF all_articles = << >> THEN unique_articles
    ELSE LET pair == Head(all_articles)
         IN  IF pair.article.url \notin seen_urls
             THEN CombinedDedupLoop(Tail(all_articles),
                                    seen_urls \cup {pair.article.url},
                                    Append(unique_articles, pair))
             ELSE CombinedDedupLoop(Tail(all_articles), seen_urls, unique_articles)

RECURSIVE LastPairOfEachUrl(_)
LastPairOfEachUrl(pairs) ==
    IF pairs = << >> THEN << >>
    ELSE IF \E k \in 2..Len(pairs) : pairs[k].article.url = Head(pairs).article.url
         THEN LastPairOfEachUrl(Tail(pairs))
         ELSE << Head(pairs) >> \o LastPairOfEachUrl(Tail(pairs))

\* a deduplication that lets the last pair of a url win
CombinedDedupKeepLast(all_articles) == LastPairOfEachUrl(all_articles)

CombinedDedup(all_articles) == CombinedDedupLoop(all_articles, {}, << >>)

RECURSIVE AddCombinedEntries(_, _)
\* the loop of generate_combined_feed over the pairs it is handed
AddCombinedEntries(pairs, entries) ==
    IF pairs = << >> THEN entries
    ELSE LET tag == Head(pairs).tag
             article == Head(pairs).article
         IN  AddCombinedEntries(
                 Tail(pairs),
                 AddEntry(entries,
                          FeedEntry("[" \o Upper(tag) \o "] " \o article.title,
                                    article)))

CombinedFileName == "feed.xml"

\* the document generate_combined_feed writes
CombinedFeed(tag_articles) ==
    [id |-> BASE_URL,
     title |-> "ConJur - Combined Feed",
     self |-> CombinedFileName,
     items |-> AddCombinedEntries(Reversed(CombinedDedup(Flatten(tag_articles))),
                                  << >>)]

(***************************************************************************)
(* The site a run crawls: the tags asked for, the article blocks and the   *)
(* listing documents the server may answer with.                           *)
(***************************************************************************)
TagNames == { "itcmd", "stf" }

Block(h2, a, link_text, href, chapeu, author, time, img) ==
    [h2 |-> h2, a |-> a, link_text |-> link_text, href |-> href,
     chapeu |-> chapeu, author |-> author, time |-> time, img |-> img]

Author(pieces) == [kind |-> "author", pieces |-> pieces]

\* an article with every field, an absolute link and a date that parses
BlockFull ==
    Block(TRUE, TRUE, "Primeira", "https://www.conjur.com.br/2026/a/",
          Text("TRIBUTOS"), Author(<< "Ana", "", "Bia" >>),
          DateText(2, "Fevereiro", 2026, 7, 33), Text("/img/a.png"))

\* the same url under another title, with a date text that does not match
BlockAgain ==
    Block(TRUE, TRUE, "Primeira de novo", "/2026/a/",
          None, None, NoMatch, None)

\* a site-relative link, no date element
BlockRelative ==
    Block(TRUE, TRUE, "Segunda", "/2026/b/", Text("STF"), None, None, None)

\* a headline without a link: the block is skipped
BlockNoLink ==
    Block(TRUE, FALSE, "", "", None, None, None, None)

\* a date text that matches and names the 31st of February
BlockBadDay ==
    Block(TRUE, TRUE, "Terceira", "/2026/c/", None, Author(<< "Caio" >>),
          DateText(31, "fevereiro", 2026, 7, 33), None)

\* a date text whose month word is no month
BlockBadMonth ==
    Block(TRUE, TRUE, "Terceira", "/2026/c/", None, None,
          DateText(2, "fevereiru", 2026, 7, 33), None)

\* the article lists of the listing pages of the site
SiteBlockLists ==
    { << >>,
      << BlockFull, BlockRelative >>,
      << BlockAgain >>,
      << BlockNoLink, BlockRelative, BlockBadMonth >>,
      << BlockBadDay >> }

Link(page_numbers, next, text) ==
    [page_numbers |-> page_numbers, next |-> next, text |-> text]

\* str(n) for a page number of one digit
Str(n) == (CHOOSE d \in Digits : d[2] = n)[1]

\* the pagination element of a listing whose last page is n: the current
\* page, an ellipsis, the last page and the "next" control
Nav(n) ==
    [kind |-> "nav",
     links |-> << Link(TRUE, FALSE, "1"), Link(TRUE, FALSE, "..."),
                  Link(TRUE, FALSE, Str(n)), Link(TRUE, TRUE, "Proxima") >>]

\* the largest page number the site's pagination names
MaxTotal == MaxFetches

Html(blocks, nav) == [kind |-> "html", empty |-> FALSE, blocks |-> blocks, nav |-> nav]

\* a response with an empty body
EmptyBody == [kind |-> "html", empty |-> TRUE, blocks |-> << >>, nav |-> None]

(***************************************************************************)
(* fetch_page.  The answer to a GET is a response (status code and body)   *)
(* or an httpx.RequestError; a closed client refuses to send.              *)
(***************************************************************************)
Response(status_code, text) ==
    [kind |-> "response", status_code |-> status_code, text |-> text]

\* the subclasses of httpx.RequestError the transport raises
RequestErrors == { "ConnectError", "ReadTimeout", "TooManyRedirects" }

\* await client.get(url): a closed client raises RuntimeError before any
\* request is sent
Get(client_state, answer) ==
    IF client_state = "closed" THEN Raise("RuntimeError") ELSE answer

\* response.raise_for_status(): HTTPStatusError unless the status is 2xx
raise_for_status(response) ==
    IF response.status_code \in 200..299 THEN response
    ELSE Raise("HTTPStatusError")

\* the body of the try: Ok(response.text), or the error raised in it
TryGet(client_state, answer) ==
    LET response == Get(client_state, answer)
    IN  IF IsRaise(response) THEN response
        ELSE IF IsRaise(raise_for_status(response)) THEN raise_for_status(response)
        ELSE Ok(response.text)

\* the two except clauses: the errors they catch become None
Caught(outcome) ==
    IF IsRaise(outcome)
    THEN (IF outcome.exc \in { "HTTPStatusError" } \cup RequestErrors
          THEN None ELSE outcome)
    ELSE outcome.value

\* a fetch that asks once more after a failure
FetchPageRetry(client_state, answers) ==
    IF Caught(TryGet(client_state, answers[1])) = None
    THEN [gets |-> 2, value |-> Caught(TryGet(client_state, answers[2]))]
    ELSE [gets |-> 1, value |-> Caught(TryGet(client_state, answers[1]))]

\* fetch_page(client, url), answers being what the server has for the
\* successive GETs of the url: the calls of client.get it made and the
\* value returned, or the error that left it
fetch_page(client_state, answers) ==
    [gets |-> 1, value |-> Caught(TryGet(client_state, answers[1]))]

\* what the site can answer to the GET of a listing of one of the documents
SiteAnswers(documents) ==
    { Response(200, d) : d \in documents \cup { EmptyBody } }
    \cup { Response(status_code, EmptyBody) : status_code \in { 404, 500 } }
    \cup { Raise(exc) : exc \in RequestErrors }

\* what fetch_page can return for the first page of a tag
FirstPageOutcomes ==
    { fetch_page("open", << answer >>).value :
         answer \in SiteAnswers({ Html(b, None) : b \in SiteBlockLists }
                                \cup { Html(b, Nav(n)) : b \in SiteBlockLists,
                                                         n \in 2..MaxTotal }) }

\* what fetch_page can return for a later page
LaterPageOutcomes ==
    { fetch_page("open", << answer >>).value :
         answer \in SiteAnswers({ Html(b, Nav(MaxTotal)) : b \in SiteBlockLists }) }

\* the truth value of an optional string: None and "" are false
Truthy(html) == html # None /\ ~html.empty

Pending == [kind |-> "pending"]

(***************************************************************************)
(* The state of a run.                                                     *)
(***************************************************************************)
VARIABLES
    tags,          \* the tag list given to async_main
    max_pages,     \* the page ceiling given to async_main
    pc,            \* where async_main is
    client,        \* the shared httpx.AsyncClient: "none", "open", "closed"
    tagPc,         \* where the scrape_tag task of each position of tags is
    issued,        \* the urls each scrape_tag task has requested, in order
    html,          \* per task, the result of the fetch of each page
    arrived,       \* per task, the later pages in the order their fetches ended
    all_articles,  \* per task, the accumulated articles
    results,       \* per task, the list scrape_tag returned
    tag_articles,  \* the dictionary scrape_all_tags returned
    emitted,       \* how many items of it the loop of async_main has visited
    files,         \* the output directory: file name -> document written
    error,         \* the exception that left async_main, None if none did
    call,          \* a function called on its own: its name and arguments
    ret            \* what that call returned or raised

vars == << tags, max_pages, pc, client, tagPc, issued, html, arrived,
           all_articles, results, tag_articles, emitted, files, error,
           call, ret >>

Tasks == 1..Len(tags)

RECURSIVE SeqsUpTo(_, _)
\* the sequences over S of length at most n
SeqsUpTo(S, n) ==
    IF n = 0 THEN { << >> }
    ELSE LET shorter == SeqsUpTo(S, n - 1)
         IN  shorter \cup { Append(q, x) : q \in { r \in shorter : Len(r) = n - 1 }, x \in S }

\* TAG_URL_TEMPLATE.format(tag=tag)
TagUrl(tag) == BASE_URL \o "/tag/" \o tag \o "/"

\* a page url that ends in a slash
PageUrlSlash(base_url, p) == base_url \o "page/" \o Str(p) \o "/"

\* the url scrape_tag asks for page p >= 2
PageUrl(base_url, p) == base_url \o "page/" \o Str(p)

Init ==
    /\ tags \in { t \in SeqsUpTo(TagNames, MaxTags) : t # << >> }
    /\ max_pages \in 1..MaxFetches
    /\ Len(tags) * max_pages <= MaxFetches
    /\ pc = "start"
    /\ client = "none"
    /\ tagPc = [i \in Tasks |-> "created"]
    /\ issued = [i \in Tasks |-> << >>]
    /\ html = [i \in Tasks |-> << >>]
    /\ arrived = [i \in Tasks |-> << >>]
    /\ all_articles = [i \in Tasks |-> << >>]
    /\ results = [i \in Tasks |-> None]
    /\ tag_articles = None
    /\ emitted = 0
    /\ files = << >>
    /\ error = None
    /\ call = None
    /\ ret = None

(***************************************************************************)
(* scrape_all_tags and scrape_tag.                                         *)
(***************************************************************************)
\* requests that ask for the first page again when it was absent
LaterRequestsRetry(base_url, first_page_html, ceiling) ==
    IF ~Truthy(first_page_html) THEN << base_url >>
    ELSE LET total_pages == get_total_pages_from_html(first_page_html)
             pages_to_fetch == Min(total_pages, ceiling)
         IN  [k \in 1..(pages_to_fetch - 1) |-> PageUrl(base_url, k + 1)]

\* the requests scrape_tag issues once the first page has arrived: none
\* when the page is absent, else one per page 2..pages_to_fetch
LaterRequests(base_url, first_page_html, ceiling) ==
    IF ~Truthy(first_page_html) THEN << >>
    ELSE LET total_pages == get_total_pages_from_html(first_page_html)
             pages_to_fetch == Min(total_pages, ceiling)
         IN  [k \in 1..(pages_to_fetch - 1) |-> PageUrl(base_url, k + 1)]

RECURSIVE AccumulateUntilAbsent(_, _)
\* an accumulation that stops at the first page that is absent
AccumulateUntilAbsent(page_results, articles) ==
    IF page_results = << >> THEN Ok(articles)
    ELSE IF ~Truthy(Head(page_results)) THEN Ok(articles)
    ELSE LET parsed == parse_articles_from_html(Head(page_results))
         IN  IF IsRaise(parsed) THEN parsed
             ELSE AccumulateUntilAbsent(Tail(page_results),
                                        articles \o parsed.value)

RECURSIVE Accumulate(_, _)
\* the loop over the gathered results, page 2 first: Ok(the articles
\* accumulated), or the error raised on the way
Accumulate(page_results, articles) ==
    IF page_results = << >> THEN Ok(articles)
    ELSE IF ~Truthy(Head(page_results))
         THEN Accumulate(Tail(page_results), articles)
    ELSE LET parsed == parse_articles_from_html(Head(page_results))
         IN  IF IsRaise(parsed) THEN parsed
             ELSE Accumulate(Tail(page_results), articles \o parsed.value)

\* async_main calls scrape_all_tags, which opens the client and gathers one
\* scrape_tag task per tag; each task runs up to its request for page 1
StartRun ==
    /\ pc = "start"
    /\ pc' = "scraping"
    /\ client' = "open"
    /\ tagPc' = [i \in Tasks |-> "first"]
    /\ issued' = [i \in Tasks |-> << TagUrl(tags[i]) >>]
    /\ html' = [i \in Tasks |-> << Pending >>]
    /\ UNCHANGED << call, ret, tags, max_pages, arrived, all_articles, results,
                    tag_articles, emitted, files, error >>

\* the fetch of the first page of task i returns first_page_html, and
\* scrape_tag runs on to its return or to the gather of the later pages;
\* a client already closed refuses their requests, and the RuntimeError
\* leaves fetch_page, the gather and scrape_tag
FirstPageDone(i, first_page_html) ==
    /\ tagPc[i] = "first"
    /\ LET parsed == IF Truthy(first_page_html)
                     THEN parse_articles_from_html(first_page_html)
                     ELSE Ok(<< >>)
           later == IF IsRaise(parsed) THEN << >>
                    ELSE LaterRequests(TagUrl(tags[i]), first_page_html, max_pages)
           refused == Get(client, Pending)
           sent == IF IsRaise(refused) THEN << >> ELSE later
       IN  /\ html' = [html EXCEPT ![i] =
                          << first_page_html >> \o [k \in 1..Len(sent) |-> Pending]]
           /\ issued' = [issued EXCEPT ![i] = @ \o sent]
           /\ IF ~Truthy(first_page_html)
              THEN /\ tagPc' = [tagPc EXCEPT ![i] = "done"]
                   /\ results' = [results EXCEPT ![i] = Ok(<< >>)]
                   /\ UNCHANGED all_articles
              ELSE IF IsRaise(parsed)
              THEN /\ tagPc' = [tagPc EXCEPT ![i] = "raised"]
                   /\ results' = [results EXCEPT ![i] = parsed]
                   /\ UNCHANGED all_articles
              ELSE IF Len(later) > 0 /\ IsRaise(refused)
              THEN /\ tagPc' = [tagPc EXCEPT ![i] = "raised"]
                   /\ all_articles' = [all_articles EXCEPT ![i] = parsed.value]
                   /\ results' = [results EXCEPT ![i] = refused]
              ELSE IF Len(later) > 0
              THEN /\ tagPc' = [tagPc EXCEPT ![i] = "gather"]
                   /\ all_articles' = [all_articles EXCEPT ![i] = parsed.value]
                   /\ UNCHANGED results
              ELSE /\ tagPc' = [tagPc EXCEPT ![i] = "done"]
                   /\ all_articles' = [all_articles EXCEPT ![i] = parsed.value]
                   /\ results' = [results EXCEPT ![i] = Ok(Dedup(parsed.value))]
    /\ UNCHANGED << call, ret, tags, max_pages, pc, client, arrived,
                    tag_articles, emitted, files, error >>

\* the fetch of page p >= 2 of task i returns page_html
PageDone(i, p, page_html) ==
    /\ tagPc[i] = "gather"
    /\ p \in 2..Len(html[i])
    /\ html[i][p] = Pending
    /\ html' = [html EXCEPT ![i][p] = page_html]
    /\ arrived' = [arrived EXCEPT ![i] = Append(@, p)]
    /\ UNCHANGED << call, ret, tags, max_pages, pc, client, tagPc, issued, all_articles,
                    results, tag_articles, emitted, files, error >>

\* every later page of task i has returned: scrape_tag resumes after the
\* gather, extends the accumulation, deduplicates and returns
GatherDone(i) ==
    /\ tagPc[i] = "gather"
    /\ \A p \in 2..Len(html[i]) : html[i][p] # Pending
    /\ LET acc == Accumulate(Tail(html[i]), all_articles[i])
       IN  IF IsRaise(acc)
           THEN /\ tagPc' = [tagPc EXCEPT ![i] = "raised"]
                /\ results' = [results EXCEPT ![i] = acc]
                /\ UNCHANGED all_articles
           ELSE /\ tagPc' = [tagPc EXCEPT ![i] = "done"]
                /\ all_articles' = [all_articles EXCEPT ![i] = acc.value]
                /\ results' = [results EXCEPT ![i] = Ok(Dedup(acc.value))]
    /\ UNCHANGED << call, ret, tags, max_pages, pc, client, issued, html, arrived,
                    tag_articles, emitted, files, error >>

\* every task has returned: the gather of scrape_all_tags yields their
\* lists, the client is closed and the dictionary goes back to async_main
ScrapeAllReturn ==
    /\ pc = "scraping"
    /\ \A i \in Tasks : tagPc[i] = "done"
    /\ tag_articles' = DictZip(tags, [i \in Tasks |-> results[i].value])
    /\ client' = "closed"
    /\ pc' = "emit"
    /\ UNCHANGED << call, ret, tags, max_pages, tagPc, issued, html, arrived,
                    all_articles, results, emitted, files, error >>

\* a task has raised: the gather hands its error on at once, the client is
\* closed on the way out and the error leaves async_main
ScrapeAllRaise ==
    /\ pc = "scraping"
    /\ \E i \in Tasks :
          /\ tagPc[i] = "raised"
          /\ error' = results[i]
    /\ client' = "closed"
    /\ pc' = "raised"
    /\ UNCHANGED << call, ret, tags, max_pages, tagPc, issued, html, arrived,
                    all_articles, results, tag_articles, emitted, files >>

\* asyncio.run cancels the tasks still running when async_main has raised
Teardown ==
    /\ pc = "raised"
    /\ \E i \in Tasks : tagPc[i] \in { "first", "gather" }
    /\ tagPc' = [i \in Tasks |-> IF tagPc[i] \in { "first", "gather" }
                                 THEN "cancelled" ELSE tagPc[i]]
    /\ UNCHANGED << call, ret, tags, max_pages, pc, client, issued, html, arrived,
                    all_articles, results, tag_articles, emitted, files, error >>

(***************************************************************************)
(* async_main after the scrape: one feed per tag, then the combined feed.  *)
(***************************************************************************)
\* a loop that writes the feed of every tag
WritesTagFeedAlways(articles) == TRUE

\* "if articles:" before generate_feed_for_tag
WritesTagFeed(articles) == articles # << >>

\* "if any(tag_articles.values()):" before generate_combined_feed
WritesCombinedFeed(d) == \E k \in 1..Len(d) : d[k].value # << >>

\* fg.rss_file(output_path): the file holds the document, or the write
\* fails with OSError
WriteFile(name, document, write_ok) ==
    IF write_ok
    THEN /\ files' = DictSet(files, name, document)
         /\ UNCHANGED error
    ELSE /\ error' = Raise("OSError")
         /\ UNCHANGED files

\* one pass of the loop of async_main over the items of the dictionary
VisitTag(write_ok) ==
    /\ pc = "emit"
    /\ emitted < Len(tag_articles)
    /\ LET tag == tag_articles[emitted + 1].key
           articles == tag_articles[emitted + 1].value
       IN  IF WritesTagFeed(articles)
           THEN /\ WriteFile(TagFileName(tag), TagFeed(tag, articles), write_ok)
                /\ IF write_ok
                   THEN emitted' = emitted + 1 /\ UNCHANGED pc
                   ELSE pc' = "raised" /\ UNCHANGED emitted
           ELSE /\ write_ok
                /\ emitted' = emitted + 1
                /\ UNCHANGED << pc, files, error >>
    /\ UNCHANGED << call, ret, tags, max_pages, client, tagPc, issued, html,
                    arrived, all_articles, results, tag_articles >>

\* the end of async_main: the combined feed, if any tag has an article
Finish(write_ok) ==
    /\ pc = "emit"
    /\ emitted = Len(tag_articles)
    /\ IF WritesCombinedFeed(tag_articles)
       THEN /\ WriteFile(CombinedFileName, CombinedFeed(tag_articles), write_ok)
            /\ pc' = IF write_ok THEN "done" ELSE "raised"
       ELSE /\ write_ok
            /\ pc' = "done"
            /\ UNCHANGED << files, error >>
    /\ UNCHANGED << call, ret, tags, max_pages, client, tagPc, issued, html,
                    arrived, all_articles, results, tag_articles, emitted >>

Next ==
    \/ StartRun
    \/ \E i \in Tasks : \E h \in FirstPageOutcomes : FirstPageDone(i, h)
    \/ \E i \in Tasks : \E p \in 2..MaxFetches : \E h \in LaterPageOutcomes :
          PageDone(i, p, h)
    \/ \E i \in Tasks : GatherDone(i)
    \/ ScrapeAllReturn
    \/ ScrapeAllRaise
    \/ Teardown
    \/ \E ok \in BOOLEAN : VisitTag(ok)
    \/ \E ok \in BOOLEAN : Finish(ok)

\* a run of async_main
Spec == Init /\ [][Next]_vars

(***************************************************************************)
(* The feed functions called on their own, as the tests call them, with    *)
(* any dictionary of article lists.                                        *)
(***************************************************************************)
FeedArticles ==
    { Article("Primeira", "https://www.conjur.com.br/2026/a/", << "Ana", "Bia" >>,
              "TRIBUTOS", Datetime(2026, 2, 2, 7, 33), None),
      Article("Primeira de novo", "https://www.conjur.com.br/2026/a/", << >>,
              "", None, None),
      Article("Segunda", "https://www.conjur.com.br/2026/b/", << >>,
              "STF", None, None),
      Article("Terceira", "https://www.conjur.com.br/2026/c/", << "Caio" >>,
              "", None, None) }

RECURSIVE TotalLen(_)
TotalLen(ls) == IF ls = << >> THEN 0 ELSE Len(Head(ls)) + TotalLen(Tail(ls))

\* the dictionaries of at most MaxArticles articles over the tag names
FeedDicts ==
    LET lists == SeqsUpTo(FeedArticles, MaxArticles)
        keys == { t \in SeqsUpTo(TagNames, Cardinality(TagNames)) :
                     t # << >> /\ \A j, k \in 1..Len(t) : j # k => t[j] # t[k] }
    IN  UNION { { [k \in 1..Len(t) |-> Item(t[k], ls[k])] :
                    ls \in { l \in [1..Len(t) -> lists] : TotalLen(l) <= MaxArticles } } :
                t \in keys }

InitFeed ==
    /\ tag_articles \in FeedDicts
    /\ pc = "feeds"
    /\ tags = << >>
    /\ max_pages = 1
    /\ client = "none"
    /\ tagPc = << >>
    /\ issued = << >>
    /\ html = << >>
    /\ arrived = << >>
    /\ all_articles = << >>
    /\ results = << >>
    /\ emitted = 0
    /\ files = << >>
    /\ error = None
    /\ call = None
    /\ ret = None

\* generate_feed_for_tag(tag, articles, output_dir) on item k
CallTagFeed(k, write_ok) ==
    /\ pc = "feeds"
    /\ k \in 1..Len(tag_articles)
    /\ WriteFile(TagFileName(tag_articles[k].key),
                 TagFeed(tag_articles[k].key, tag_articles[k].value), write_ok)
    /\ pc' = IF write_ok THEN pc ELSE "raised"
    /\ UNCHANGED << call, ret, tags, max_pages, client, tagPc, issued, html,
                    arrived, all_articles, results, tag_articles, emitted >>

\* generate_combined_feed(tag_articles, output_dir)
CallCombinedFeed(write_ok) ==
    /\ pc = "feeds"
    /\ WriteFile(CombinedFileName, CombinedFeed(tag_articles), write_ok)
    /\ pc' = IF write_ok THEN pc ELSE "raised"
    /\ UNCHANGED << call, ret, tags, max_pages, client, tagPc, issued, html,
                    arrived, all_articles, results, tag_articles, emitted >>

NextFeed ==
    \/ \E k \in 1..Cardinality(TagNames) : \E ok \in BOOLEAN : CallTagFeed(k, ok)
    \/ \E ok \in BOOLEAN : CallCombinedFeed(ok)

SpecFeed == InitFeed /\ [][NextFeed]_vars

(***************************************************************************)
(* The parsing functions and fetch_page called on their own, as the tests  *)
(* call them, with any argument.                                           *)
(***************************************************************************)
\* the date texts: one that the expression does not match, and the matches
\* over some days, month words, years, hours and minutes
CallDateTexts ==
    { NoMatch }
    \cup { DateText(day, month_name, year, hour, minute) :
              day \in { 0, 2, 29, 30, 31, 32 },
              month_name \in { "fevereiro", "FEVEREIRO", "Março", "abril",
                               "fevereiru", "de" },
              year \in { 0, 2024, 2026 },
              hour \in { 0, 23, 24 },
              minute \in { 0, 59, 60 } }

\* the article blocks: without a headline, without a link, and the blocks
\* with both over some link texts, destinations and time elements
CallBlocks ==
    { Block(FALSE, FALSE, "", "", None, None, None, None), BlockNoLink }
    \cup { Block(TRUE, TRUE, link_text, href, None, None, time, None) :
              link_text \in { "", "Titulo" },
              href \in { "", "https://www.conjur.com.br/2026/a/", "/2026/b/" },
              time \in { None, NoMatch, DateText(2, "Fevereiro", 2026, 7, 33),
                         DateText(2, "fevereiru", 2026, 7, 33),
                         DateText(31, "fevereiro", 2026, 7, 33) } }

\* the calls of parse_pt_date(text)
ParsePtDateCalls == { [fn |-> "parse_pt_date", text |-> t] : t \in CallDateTexts }

\* the calls of parse_articles_from_html(html)
ParseArticlesCalls ==
    { [fn |-> "parse_articles_from_html", html |-> Html(b, None)] :
         b \in SeqsUpTo(CallBlocks, MaxBlocks) }

\* the answers a server can give to a GET
CallAnswers ==
    { Response(status_code, text) :
         status_code \in { 200, 204, 304, 404, 500 },
         text \in { EmptyBody, Html(<< BlockRelative >>, None) } }
    \cup { Raise(exc) : exc \in RequestErrors }

\* the calls of fetch_page(client, url), with the answers the server has
\* for the successive GETs of the url
FetchPageCalls ==
    { [fn |-> "fetch_page", client |-> c, answers |-> a] :
         c \in { "open", "closed" },
         a \in { q \in SeqsUpTo(CallAnswers, MaxAnswers) : Len(q) = MaxAnswers } }

\* the links of a pagination element: page-number links of several
\* labels, "next" controls, and a link that is no page-number link
CallLinks ==
    { Link(TRUE, FALSE, text) : text \in { "0", "2", "5", "12", "...", "-3" } }
    \cup { Link(TRUE, TRUE, ">>"), Link(TRUE, TRUE, "7"), Link(FALSE, FALSE, "9") }

\* the calls of get_total_pages_from_html(html)
TotalPagesCalls ==
    { [fn |-> "get_total_pages_from_html", html |-> Html(<< >>, nav)] :
         nav \in { None } \cup { [kind |-> "nav", links |-> q] :
                                    q \in SeqsUpTo(CallLinks, MaxLinks) } }

Calls ==
    ParsePtDateCalls \cup ParseArticlesCalls \cup FetchPageCalls
    \cup TotalPagesCalls

InitCalls ==
    /\ call \in Calls
    /\ ret = None
    /\ pc = "call"
    /\ tags = << >>
    /\ max_pages = 1
    /\ client = "none"
    /\ tagPc = << >>
    /\ issued = << >>
    /\ html = << >>
    /\ arrived = << >>
    /\ all_articles = << >>
    /\ results = << >>
    /\ tag_articles = << >>
    /\ emitted = 0
    /\ files = << >>
    /\ error = None

\* the call returns or raises
Returns(value) ==
    /\ ret' = value
    /\ pc' = "returned"
    /\ UNCHANGED << call, tags, max_pages, client, tagPc, issued, html, arrived,
                    all_articles, results, tag_articles, emitted, files, error >>

CallParsePtDate ==
    /\ pc = "call"
    /\ call.fn = "parse_pt_date"
    /\ Returns(parse_pt_date(call.text))

CallParseArticles ==
    /\ pc = "call"
    /\ call.fn = "parse_articles_from_html"
    /\ Returns(parse_articles_from_html(call.html))

CallFetchPage ==
    /\ pc = "call"
    /\ call.fn = "fetch_page"
    /\ Returns(fetch_page(call.client, call.answers))

CallTotalPages ==
    /\ pc = "call"
    /\ call.fn = "get_total_pages_from_html"
    /\ Returns(get_total_pages_from_html(call.html))

NextCalls ==
    \/ CallParsePtDate
    \/ CallParseArticles
    \/ CallFetchPage
    \/ CallTotalPages

SpecCalls == InitCalls /\ [][NextCalls]_vars

(***************************************************************************)
(* Properties of scrape_tag.                                               *)
(***************************************************************************)
\* the place of the first article of url u in a list that has one
FirstIndex(articles, u) ==
    CHOOSE k \in 1..Len(articles) :
        /\ articles[k].url = u
        /\ \A j \in 1..(k - 1) : articles[j].url # u

\* C1: the list scrape_tag returns has no two articles of one url; it has
\* an article for every url of the accumulated list, which is the first
\* article of that url in the accumulated list, and the articles it keeps
\* stand in the order they have there.
C1_DedupFirstWins ==
    \A i \in Tasks :
        tagPc[i] = "done" =>
            LET acc == all_articles[i]
                out == results[i].value
            IN  /\ \A j, k \in 1..Len(out) : j # k => out[j].url # out[k].url
                /\ { out[k].url : k \in 1..Len(out) }
                      = { acc[k].url : k \in 1..Len(acc) }
                /\ \A k \in 1..Len(out) : out[k] = acc[FirstIndex(acc, out[k].url)]
                /\ \A j, k \in 1..Len(out) :
                      j < k => FirstIndex(acc, out[j].url) < FirstIndex(acc, out[k].url)

\* a scrape that met a url twice, under two titles, after another url
C1_Witness ==
    \E i \in Tasks :
        /\ tagPc[i] = "done"
        /\ Len(results[i].value) >= 2
        /\ \E j, k \in 1..Len(all_articles[i]) :
              /\ j + 1 < k
              /\ all_articles[i][j].url = all_articles[i][k].url
              /\ all_articles[i][j].title # all_articles[i][k].title

\* the articles a fetched page contributes: none when the fetch was absent
ExtractedFrom(page_html) ==
    IF page_html = None THEN << >>
    ELSE parse_articles_from_html(page_html).value

RECURSIVE ConcatPages(_, _)
\* the articles of pages 1..n, page after page
ConcatPages(pages, n) ==
    IF n = 0 THEN << >>
    ELSE ConcatPages(pages, n - 1) \o ExtractedFrom(pages[n])

\* C2: when the first page was fetched, the accumulated list of a scrape
\* that has returned is the articles of page 1, then of page 2, and so on,
\* of the pages whose fetch succeeded, in whatever order the fetches ended;
\* an absent page adds nothing and takes nothing away.
C2_AccumulatedInPageOrder ==
    \A i \in Tasks :
        (tagPc[i] = "done" /\ html[i][1] # None) =>
            all_articles[i] = ConcatPages(html[i], Len(html[i]))

\* a scrape of three pages whose third page arrived before its second,
\* the second absent, the first and the third with articles
C2_Witness ==
    \E i \in Tasks :
        /\ tagPc[i] = "done"
        /\ Len(html[i]) = 3
        /\ arrived[i] = << 3, 2 >>
        /\ html[i][2] = None
        /\ ExtractedFrom(html[i][1]) # << >>
        /\ ExtractedFrom(html[i][3]) # << >>

\* C3: a scrape whose first page came back absent has returned the empty
\* list and has asked for the first page of its tag, once, and for
\* nothing else.
C3_FirstPageAbsent ==
    \A i \in Tasks :
        (tagPc[i] \notin { "created", "first" } /\ html[i][1] = None) =>
            /\ tagPc[i] = "done"
            /\ results[i] = Ok(<< >>)
            /\ issued[i] = << TagUrl(tags[i]) >>

\* a scrape allowed several pages whose first page came back absent
C3_Witness ==
    \E i \in Tasks :
        /\ tagPc[i] = "done"
        /\ html[i][1] = None
        /\ max_pages > 1

(***************************************************************************)
(* Properties of scrape_all_tags and of a run.                             *)
(***************************************************************************)
\* the last place of tag t in the tag list: the task whose list the
\* dictionary keeps for t
LastTask(t) ==
    CHOOSE i \in Tasks : tags[i] = t /\ \A j \in Tasks : j > i => tags[j] # t

\* scrape_all_tags has returned its dictionary to async_main
HasDictionary ==
    \/ pc \in { "emit", "done" }
    \/ pc = "raised" /\ error = Raise("OSError")

\* C4: a run asks for the first page of every tag, and no error but the
\* failure of a write leaves it.
C4_OnlyWriteFailureAborts ==
    /\ pc # "start" => \A i \in Tasks : issued[i] # << >>
    /\ pc = "raised" => error = Raise("OSError")

\* C5: the dictionary scrape_all_tags returns has one item for every tag
\* of the tag list and no other; the value of a tag is the list its
\* scrape_tag call returned, the empty list included.
C5_OneEntryPerTag ==
    HasDictionary =>
        /\ Keys(tag_articles) = { tags[i] : i \in Tasks }
        /\ \A j, k \in 1..Len(tag_articles) :
              j # k => tag_articles[j].key # tag_articles[k].key
        /\ \A k \in 1..Len(tag_articles) :
              tag_articles[k].value = results[LastTask(tag_articles[k].key)].value

\* a dictionary with the empty list for a tag whose first page was absent,
\* beside a tag with articles
C5_Witness ==
    /\ HasDictionary
    /\ \E i, j \in Tasks :
          /\ tags[i] # tags[j]
          /\ html[i][1] = None
          /\ DictGet(tag_articles, tags[i]) = << >>
          /\ DictGet(tag_articles, tags[j]) # << >>

\* C6: what a tag gets depends on its own pages alone: once
\* scrape_all_tags has ended, the list of every tag whose scrape returned
\* is in the dictionary, whatever the pages of the other tags held.
C6_TagsIndependent ==
    \A i \in Tasks :
        (pc \notin { "start", "scraping" } /\ tagPc[i] = "done"
            /\ i = LastTask(tags[i])) =>
            /\ HasDictionary
            /\ DictGet(tag_articles, tags[i]) = results[i].value

\* C10 as claimed: after a run that ended without error the directory has
\* the file of every tag, and feed.xml.
C10_EveryTagHasFile ==
    pc = "done" =>
        /\ \A i \in Tasks : TagFileName(tags[i]) \in Keys(files)
        /\ CombinedFileName \in Keys(files)

\* C10: after a run that ended without error, the run has written the file
\* of a tag exactly when the tag has an article, feed.xml exactly when some
\* tag has one, and no other file.
C10_FilesOfTagsWithArticles ==
    pc = "done" =>
        /\ \A i \in Tasks :
              TagFileName(tags[i]) \in Keys(files)
                  <=> results[LastTask(tags[i])].value # << >>
        /\ CombinedFileName \in Keys(files)
              <=> \E i \in Tasks : results[LastTask(tags[i])].value # << >>
        /\ Keys(files) \subseteq
              { TagFileName(tags[i]) : i \in Tasks } \cup { CombinedFileName }

\* a finished run of two tags, one with articles and one without
C10_Witness ==
    /\ pc = "done"
    /\ \E i, j \in Tasks :
          /\ TagFileName(tags[i]) \in Keys(files)
          /\ TagFileName(tags[j]) \notin Keys(files)
          /\ results[j].value = << >>

(***************************************************************************)
(* Properties of the feed documents.                                       *)
(***************************************************************************)
Written(name) == name \in Keys(files)

ItemsOf(name) == DictGet(files, name).items

IdsOf(items) == [k \in 1..Len(items) |-> items[k].id]

UrlsOf(articles) == [k \in 1..Len(articles) |-> articles[k].url]

PairUrlsOf(pairs) == [k \in 1..Len(pairs) |-> pairs[k].article.url]

\* C7 as claimed: the items of a feed are the articles handed in, last
\* article first, in the feed of a tag and in the combined feed.
C7_EntriesReversed ==
    /\ \A k \in 1..Len(tag_articles) :
          Written(TagFileName(tag_articles[k].key)) =>
              IdsOf(ItemsOf(TagFileName(tag_articles[k].key)))
                  = Reversed(UrlsOf(tag_articles[k].value))
    /\ Written(CombinedFileName) =>
          IdsOf(ItemsOf(CombinedFileName))
              = Reversed(PairUrlsOf(CombinedDedup(Flatten(tag_articles))))

\* C7: the items of a feed are the articles handed in, in the order they
\* were handed in (the loop adds them last article first, and each entry
\* added goes before the ones added earlier): a1..an gives a1, ..., an, in
\* the feed of a tag and, over the deduplicated pairs, in the combined feed.
C7_EntriesInInputOrder ==
    /\ \A k \in 1..Len(tag_articles) :
          Written(TagFileName(tag_articles[k].key)) =>
              IdsOf(ItemsOf(TagFileName(tag_articles[k].key)))
                  = UrlsOf(tag_articles[k].value)
    /\ Written(CombinedFileName) =>
          IdsOf(ItemsOf(CombinedFileName))
              = PairUrlsOf(CombinedDedup(Flatten(tag_articles)))

\* the feed of a tag with items of two urls, and a combined feed of two
\* urls, both written
C7_Witness ==
    /\ Written(CombinedFileName)
    /\ Len(ItemsOf(CombinedFileName)) >= 2
    /\ \E k \in 1..Len(tag_articles) :
          /\ Written(TagFileName(tag_articles[k].key))
          /\ Len(tag_articles[k].value) >= 2
          /\ tag_articles[k].value[1].url # tag_articles[k].value[2].url

\* the title the combined feed gives an article of a tag
CombinedTitle(tag, article) == "[" \o Upper(tag) \o "] " \o article.title

\* C8: the feed of a tag has one item per article handed in, the item at
\* each place titled as the article at that place (the first article is the
\* first item); and in the combined feed, two items that are first
\* articles of their urls in the list of one tag stand in the order they
\* have in that list.
C8_NewestFirst ==
    /\ \A k \in 1..Len(tag_articles) :
          Written(TagFileName(tag_articles[k].key)) =>
              LET items == ItemsOf(TagFileName(tag_articles[k].key))
                  articles == tag_articles[k].value
              IN  /\ Len(items) = Len(articles)
                  /\ \A n \in 1..Len(articles) : items[n].title = articles[n].title
    /\ Written(CombinedFileName) =>
          LET items == ItemsOf(CombinedFileName)
          IN  \A k \in 1..Len(tag_articles) :
                  LET tag == tag_articles[k].key
                      articles == tag_articles[k].value
                      From(e, n) == /\ e.id = articles[n].url
                                    /\ e.title = CombinedTitle(tag, articles[n])
                                    /\ n = FirstIndex(articles, articles[n].url)
                  IN  \A m, n \in 1..Len(articles) : \A p, q \in 1..Len(items) :
                          (m < n /\ From(items[p], m) /\ From(items[q], n)) => p < q

\* the feed of a tag with two articles under two titles, and a combined
\* feed with two items of one tag and an item of another
C8_Witness ==
    /\ Written(CombinedFileName)
    /\ Len(tag_articles) = 2
    /\ \E p, q, r \in 1..Len(ItemsOf(CombinedFileName)) :
          LET items == ItemsOf(CombinedFileName)
              first == tag_articles[1]
              second == tag_articles[2]
          IN  /\ Len(first.value) >= 2
              /\ Len(second.value) >= 1
              /\ items[p].title = CombinedTitle(first.key, first.value[1])
              /\ items[q].title = CombinedTitle(first.key, first.value[2])
              /\ p # q
              /\ items[r].title = CombinedTitle(second.key, second.value[1])
    /\ \E k \in 1..Len(tag_articles) :
          /\ Written(TagFileName(tag_articles[k].key))
          /\ Len(tag_articles[k].value) >= 2
          /\ tag_articles[k].value[1].title # tag_articles[k].value[2].title

\* the places <<k, n>> of the articles of url u in the dictionary
PlacesOf(d, u) ==
    { pl \in (1..Len(d)) \X (1..MaxArticles) :
         pl[2] <= Len(d[pl[1]].value) /\ d[pl[1]].value[pl[2]].url = u }

\* the first of them: the first tag that has the url, the first article of
\* the url in its list
FirstPlace(d, u) ==
    CHOOSE pl \in PlacesOf(d, u) :
        \A other \in PlacesOf(d, u) :
            \/ pl[1] < other[1]
            \/ (pl[1] = other[1] /\ pl[2] <= other[2])

\* C9: the combined feed has one item for every url of the dictionary and
\* no two items of one url; the item of a url is made of the first article
\* of that url (first tag that has it, first place in its list): titled
\* with that tag in upper case, with the fields of that article.
C9_CombinedFirstPairWins ==
    Written(CombinedFileName) =>
        LET items == ItemsOf(CombinedFileName)
        IN  /\ \A p, q \in 1..Len(items) : p # q => items[p].id # items[q].id
            /\ { items[p].id : p \in 1..Len(items) }
                  = UNION { { tag_articles[k].value[n].url :
                                n \in 1..Len(tag_articles[k].value) } :
                            k \in 1..Len(tag_articles) }
            /\ \A p \in 1..Len(items) :
                  LET pl == FirstPlace(tag_articles, items[p].id)
                      tag == tag_articles[pl[1]].key
                      article == tag_articles[pl[1]].value[pl[2]]
                  IN  /\ items[p].title = CombinedTitle(tag, article)
                      /\ items[p].link = article.url
                      /\ items[p].published = article.published
                      /\ items[p].description = Description(article)

\* a combined feed over two tags that have a url in common, under two
\* titles
C9_Witness ==
    /\ Written(CombinedFileName)
    /\ Len(tag_articles) = 2
    /\ \E m \in 1..Len(tag_articles[1].value) :
          \E n \in 1..Len(tag_articles[2].value) :
              /\ tag_articles[1].value[m].url = tag_articles[2].value[n].url
              /\ tag_articles[1].value[m].title # tag_articles[2].value[n].title

(***************************************************************************)
(* Properties of the parsing functions.                                    *)
(***************************************************************************)
\* C11: neither parse_pt_date nor parse_articles_from_html raises: the date
\* parser returns a timestamp or None for every date text, and the extractor
\* returns a list for every listing document.
C11_ParsingNeverRaises ==
    (pc = "returned" /\ call.fn \in { "parse_pt_date", "parse_articles_from_html" })
        => /\ ~IsRaise(ret)
           /\ call.fn = "parse_pt_date" => (ret = None \/ ret.kind = "datetime")
           /\ call.fn = "parse_articles_from_html" => ret.kind = "ok"

FirstPageFetched(i) ==
    /\ tagPc[i] \in { "gather", "done", "raised" }
    /\ html[i][1] # None

\* C13: a task whose first page was fetched has issued exactly
\* min(total_pages, max_pages) requests, the request of page p being the
\* p-th: every page 1..min(total_pages, max_pages) once, and no other page.
C13_EachPageOnce ==
    \A i \in Tasks :
        FirstPageFetched(i)
            => LET total_pages == get_total_pages_from_html(html[i][1])
                   pages_to_fetch == Min(total_pages, max_pages)
               IN  issued[i] = [p \in 1..pages_to_fetch |->
                                   IF p = 1 THEN TagUrl(tags[i])
                                   ELSE PageUrl(TagUrl(tags[i]), p)]

(***************************************************************************)
(* Properties of get_total_pages_from_html.                                *)
(***************************************************************************)
\* the integers the labels of the page-number links of the pagination
\* element denote, the "next" control left out
LabelInts(nav) ==
    { IntOf(nav.links[k].text).value :
         k \in { j \in 1..Len(nav.links) :
                    /\ nav.links[j].page_numbers
                    /\ ~nav.links[j].next
                    /\ ~IsRaise(IntOf(nav.links[j].text)) } }

Largest(S) == CHOOSE n \in S : \A m \in S : m <= n

\* C14 as stated: the count is an integer >= 1; it is 1 without a
\* pagination element, else the largest integer a label denotes, and 1 when
\* no label denotes one.
C14_LargestLabel ==
    (pc = "returned" /\ call.fn = "get_total_pages_from_html")
        => /\ ret \in Nat /\ ret >= 1
           /\ call.html.nav = None => ret = 1
           /\ call.html.nav # None
                 => ret = IF LabelInts(call.html.nav) = { } THEN 1
                          ELSE Largest(LabelInts(call.html.nav))

\* C14: the count is an integer >= 1; it is 1 without a pagination element,
\* else the largest of 1 and the integers the labels denote.
C14_LargestLabelOrOne ==
    (pc = "returned" /\ call.fn = "get_total_pages_from_html")
        => /\ ret \in Nat /\ ret >= 1
           /\ call.html.nav = None => ret = 1
           /\ call.html.nav # None
                 => ret = Largest({ 1 } \cup LabelInts(call.html.nav))

\* the count of a pagination element whose page-number link says 5 and
\* whose "next" control says 7
C14_Witness ==
    /\ pc = "returned"
    /\ call.fn = "get_total_pages_from_html"
    /\ call.html.nav # None
    /\ call.html.nav.links = << Link(TRUE, FALSE, "5"), Link(TRUE, TRUE, "7") >>
    /\ ret = 5

(***************************************************************************)
(* Properties of parse_articles_from_html.                                 *)
(***************************************************************************)
\* the block has a headline, a link inside it, a link text and a destination
Qualifies(b) == b.h2 /\ b.a /\ b.link_text # "" /\ b.href # ""

\* the destination as it is when it begins with "http", else after the
\* base origin
AbsoluteUrl(href) ==
    IF Len(href) >= 4 /\ SubSeq(href, 1, 4) = "http" THEN href
    ELSE "https://www.conjur.com.br" \o href

\* C15: parse_articles_from_html returns one Article for each block that
\* qualifies and none for another block, in document order; each has the
\* link text of its block as its title, not empty, and the absolute url of
\* the destination of its block.
C15_OneArticlePerBlock ==
    (pc = "returned" /\ call.fn = "parse_articles_from_html")
        => /\ ret.kind = "ok"
           /\ LET blocks == SelectSeq(call.html.blocks, Qualifies)
              IN  /\ Len(ret.value) = Len(blocks)
                  /\ \A k \in 1..Len(blocks) :
                        /\ ret.value[k].title = blocks[k].link_text
                        /\ ret.value[k].title # ""
                        /\ ret.value[k].url = AbsoluteUrl(blocks[k].href)

(***************************************************************************)
(* Properties of the urls of scrape_tag.                                   *)
(***************************************************************************)
\* C16 as stated: the first request of a tag goes to
\* <base_origin>/tag/<tag>/ and its n-th request, n >= 2, to
\* <base_origin>/tag/<tag>/page/<n>/.
C16_UrlFormsWithSlash ==
    \A i \in Tasks : \A n \in 1..Len(issued[i]) :
        issued[i][n] =
            IF n = 1 THEN "https://www.conjur.com.br/tag/" \o tags[i] \o "/"
            ELSE "https://www.conjur.com.br/tag/" \o tags[i] \o "/page/"
                     \o Str(n) \o "/"

\* C16: the first request of a tag goes to <base_origin>/tag/<tag>/ and its
\* n-th request, n >= 2, to <base_origin>/tag/<tag>/page/<n>, which does
\* not end in a slash.
C16_UrlForms ==
    \A i \in Tasks : \A n \in 1..Len(issued[i]) :
        issued[i][n] =
            IF n = 1 THEN "https://www.conjur.com.br/tag/" \o tags[i] \o "/"
            ELSE "https://www.conjur.com.br/tag/" \o tags[i] \o "/page/" \o Str(n)

\* a task of tag stf has asked for its pages 1, 2 and 3
C16_Witness ==
    \E i \in Tasks :
        /\ tags[i] = "stf"
        /\ issued[i] = << "https://www.conjur.com.br/tag/stf/",
                          "https://www.conjur.com.br/tag/stf/page/2",
                          "https://www.conjur.com.br/tag/stf/page/3" >>

(***************************************************************************)
(* Properties of the client of scrape_all_tags.                            *)
(***************************************************************************)
\* a fetch of task i has been issued and has not ended
InFlight(i) ==
    /\ tagPc[i] \in { "first", "gather" }
    /\ \E p \in 1..Len(html[i]) : html[i][p] = Pending

\* C17: once the client has been released, no fetch of any tag or page is
\* in flight: the client is released only after every scrape has finished.
C17_ReleasedAfterEveryScrape ==
    client = "closed" => \A i \in Tasks : ~InFlight(i)
====
